---- MODULE Spec2Model ----
(***************************************************************************)
(* State-machine model of the star-system-bot front-end.                   *)
(*                                                                         *)
(*   - the bot wizard           src/src/routes/bot/+page.svelte            *)
(*   - the translation chat     src/src/routes/test/+page.svelte           *)
(*   - the chat-history store   src/src/lib/stores/chat.ts                 *)
(*   - the theme selector       src/unnamed/part_000                       *)
(*                                                                         *)
(* The UI runtime is single threaded: a handler runs until its next await, *)
(* so every action below is one handler segment (from a click or from the  *)
(* settling of an awaited remote call up to the next await or the end of   *)
(* the handler, finally blocks included).  The backend is opaque: every    *)
(* remote call settles with an outcome chosen nondeterministically.        *)
(***************************************************************************)
EXTENDS Integers, Sequences, FiniteSets, TLC

VARIABLES
    \* ---- bot wizard (bot/+page.svelte) ----
    step,          \* wizard screen, line 23
    isLoading,     \* line 24
    isSubmitting,  \* line 25
    errorMessage,  \* line 26
    chatLogs,      \* line 40
    unlisten,      \* line 41: handle of a subscription, or None
    active,        \* chat-event subscriptions of this view registered in the event system
    destroyed,     \* the view has been destroyed (onDestroy has run)
    mountPc,       \* position of the onMount callback
    credPc,        \* position of handleCredentialsSubmit
    joinPc,        \* position of handleJoinChannel
    waits,         \* pending wait_for_token calls: [live |-> n, stale |-> n]
    disc,          \* number of handleDisconnect calls awaiting leave_channel
    evCount,       \* chat events emitted by the backend so far
    arrived,       \* payloads handled since chatLogs was last emptied
    last,          \* the handler segment that ran last
    \* ---- translation chat (test/+page.svelte) ----
    view,          \* "none": never mounted, "mounted", "destroyed"
    userMessage,   \* line 45: the input, a sequence of characters
    messages,      \* line 46
    isTyping,      \* line 47
    isLoaded,      \* line 48 (not reactive)
    localStorage,  \* [history, draft]: the stored text of each key, or Null
    translating,   \* translate calls of this view in flight, in issue order
    created,       \* messages created so far (the source of fresh ids)
    written,       \* the list last given to JSON.stringify for the history key
    lastChat,      \* the handler segment of the translation view that ran last
    \* ---- chat-history store (lib/stores/chat.ts) ----
    chatHistory,       \* line 13: the value of the writable store
    messageIdCounter,  \* line 22
    \* ---- theme selector (unnamed/part_000) ----
    theme,         \* line 7
    themeView,     \* "constructed", "mounted" or "destroyed"
    modeStored,    \* localStorage["mode-watcher-mode"]: Null or the stored text
    modeCalls,     \* the calls made to mode-watcher so far, in order
    lastTheme      \* the handler of the theme selector that ran last

botVars == <<step, isLoading, isSubmitting, errorMessage, chatLogs, unlisten,
             active, destroyed, mountPc, credPc, joinPc, waits, disc,
             evCount, arrived, last>>

chatVars == <<view, userMessage, messages, isTyping, isLoaded, localStorage,
              translating, created, written, lastChat>>

storeVars == <<chatHistory, messageIdCounter>>

themeVars == <<theme, themeView, modeStored, modeCalls, lastTheme>>

\* The variables of the two pages, and of the store and the selector
pageVars == <<botVars, chatVars>>
widgetVars == <<storeVars, themeVars>>

vars == <<botVars, chatVars, storeVars, themeVars>>

----------------------------------------------------------------------------
(* Bounds of the model *)

MaxWaits == 2        \* wait_for_token calls pending at the same time
MaxDisconnects == 2  \* handleDisconnect calls pending at the same time
MaxEvents == 2       \* chat events emitted in the wizard specification
MaxLogEvents == 52   \* chat events emitted in the chat-log specification
MaxCreated == 4      \* messages created by the translation view
SavedLen == 49       \* length of the history an earlier session has stored
MaxAdded == 3        \* addMessage calls on the chat-history store
MaxThemeChanges == 2 \* selections made in the theme selector

(* Program constants *)

ChatLogCap == 50     \* slice(-50)

None == 0            \* undefined
NoError == ""
GetTokenError == "get_token failed"
JoinChannelError == "join_channel failed"
AuthTimeoutMessage == "Authorization timed out or failed. Please try again."

Outcomes == {"ok", "fail"}

----------------------------------------------------------------------------
(* Helpers *)

Min(a, b) == IF a < b THEN a ELSE b

\* Array.prototype.slice(-n): the last n elements (all of them when shorter)
SliceLast(s, n) ==
    IF Len(s) <= n THEN s ELSE SubSeq(s, Len(s) - n + 1, Len(s))

\* Calling an unlisten function removes its subscription; a second call is a no-op
Release(subs, h) == subs \ {h}

\* listen() registers a new subscription and resolves to its unlisten function
NewSub == CHOOSE i \in 1..(Cardinality(active) + 2) :
              /\ i \notin active
              /\ i # unlisten
              /\ \A j \in 1..(i - 1) : j \in active \/ j = unlisten

\* Mutant: slice(0, 50) keeps the oldest entries instead of the newest
OnChatEvent_KeepOldest(logs, payload) ==
    IF Len(logs) < ChatLogCap THEN Append(logs, payload) ELSE logs

\* The chat-event handler of startChatListener
OnChatEvent(logs, payload) == SliceLast(Append(logs, payload), ChatLogCap)

RECURSIVE Deliver(_, _, _)
\* One emitted event runs the handler of every active subscription of the view
Deliver(logs, payload, n) ==
    IF n = 0 THEN logs ELSE Deliver(OnChatEvent(logs, payload), payload, n - 1)

\* Mutant: the subscription held is not released before listen() is called
startChatListener_NoRelease == UNCHANGED active

\* startChatListener up to its await: the subscription held is released, the
\* handle is kept
startChatListener ==
    active' = IF unlisten # None THEN Release(active, unlisten) ELSE active

\* startChatListener after its await: listen() has registered the handler
\* and its unlisten function is stored
ListenResolved ==
    /\ active' = active \cup {NewSub}
    /\ unlisten' = NewSub

\* What the user can click: the view is alive and the skeleton is not shown
Visible(s) == ~destroyed /\ ~isLoading /\ step = s

----------------------------------------------------------------------------
(* Initial state: the view has been constructed and onMount awaits          *)
(* check_auth_status                                                         *)

InitBot ==
    /\ step = 1
    /\ isLoading = TRUE
    /\ isSubmitting = FALSE
    /\ errorMessage = NoError
    /\ chatLogs = <<>>
    /\ unlisten = None
    /\ active = {}
    /\ destroyed = FALSE
    /\ mountPc = "check_auth_status"
    /\ credPc = "idle"
    /\ joinPc = "idle"
    /\ waits = [live |-> 0, stale |-> 0]
    /\ disc = 0
    /\ evCount = 0
    /\ arrived = <<>>
    /\ last = "construct"

----------------------------------------------------------------------------
(* onMount *)

CheckAuthStatusSettle ==
    /\ mountPc = "check_auth_status"
    /\ \E r \in {"true", "false", "fail"} :
          /\ last' = "check_auth_status:" \o r
          /\ IF r = "true"
                THEN /\ mountPc' = "is_in_channel"
                     /\ UNCHANGED isLoading
                ELSE /\ mountPc' = "done"
                     /\ isLoading' = FALSE
    /\ UNCHANGED <<step, isSubmitting, errorMessage, chatLogs, unlisten, active,
                   destroyed, credPc, joinPc, waits, disc, evCount, arrived>>

\* Mutant: the connected screen is shown before the listener is re-attached
IsInChannelSettle_StepFirst ==
    /\ mountPc = "is_in_channel"
    /\ \E r \in {"true", "false", "fail"} :
          /\ last' = "is_in_channel:" \o r
          /\ CASE r = "true" ->
                    /\ step' = 5
                    /\ startChatListener
                    /\ mountPc' = "listen"
                    /\ UNCHANGED isLoading
               [] r = "false" ->
                    /\ step' = 3
                    /\ isLoading' = FALSE
                    /\ mountPc' = "done"
                    /\ UNCHANGED active
               [] r = "fail" ->
                    /\ isLoading' = FALSE
                    /\ mountPc' = "done"
                    /\ UNCHANGED <<step, active>>
    /\ UNCHANGED <<isSubmitting, errorMessage, chatLogs, unlisten,
                   destroyed, credPc, joinPc, waits, disc, evCount, arrived>>

IsInChannelSettle ==
    /\ mountPc = "is_in_channel"
    /\ \E r \in {"true", "false", "fail"} :
          /\ last' = "is_in_channel:" \o r
          /\ CASE r = "true" ->
                    /\ startChatListener
                    /\ mountPc' = "listen"
                    /\ UNCHANGED <<step, isLoading>>
               [] r = "false" ->
                    /\ step' = 3
                    /\ isLoading' = FALSE
                    /\ mountPc' = "done"
                    /\ UNCHANGED active
               [] r = "fail" ->
                    /\ isLoading' = FALSE
                    /\ mountPc' = "done"
                    /\ UNCHANGED <<step, active>>
    /\ UNCHANGED <<isSubmitting, errorMessage, chatLogs, unlisten,
                   destroyed, credPc, joinPc, waits, disc, evCount, arrived>>

MountListenSettle ==
    /\ mountPc = "listen"
    /\ ListenResolved
    /\ step' = 5
    /\ isLoading' = FALSE
    /\ mountPc' = "done"
    /\ last' = "mount:listen"
    /\ UNCHANGED <<isSubmitting, errorMessage, chatLogs, destroyed, credPc, joinPc,
                   waits, disc, evCount, arrived>>

(* onDestroy *)

onDestroy ==
    /\ ~destroyed
    /\ destroyed' = TRUE
    /\ active' = IF unlisten # None THEN Release(active, unlisten) ELSE active
    /\ last' = "onDestroy"
    /\ UNCHANGED <<step, isLoading, isSubmitting, errorMessage, chatLogs, unlisten,
                   mountPc, credPc, joinPc, waits, disc, evCount, arrived>>

----------------------------------------------------------------------------
(* handleCredentialsSubmit and beginPollingForToken *)

WaitsPending == waits.live + waits.stale

handleCredentialsSubmit ==
    /\ Visible(1)
    /\ ~isSubmitting                  \* the submit button is disabled otherwise
    /\ credPc = "idle"
    /\ WaitsPending < MaxWaits
    /\ isSubmitting' = TRUE
    /\ errorMessage' = NoError
    /\ credPc' = "get_token"
    /\ last' = "handleCredentialsSubmit"
    /\ UNCHANGED <<step, isLoading, chatLogs, unlisten, active, destroyed, mountPc,
                   joinPc, waits, disc, evCount, arrived>>

\* Mutant: isSubmitting is reset at the end of the try block only, so a
\* failed get_token leaves it set
GetTokenSettle_NoFinally ==
    /\ credPc = "get_token"
    /\ \E r \in Outcomes :
          /\ last' = "get_token:" \o r
          /\ IF r = "ok"
                THEN /\ step' = 2
                     /\ credPc' = "openUrl"
                     /\ UNCHANGED <<errorMessage, isSubmitting>>
                ELSE /\ errorMessage' = GetTokenError
                     /\ credPc' = "idle"
                     /\ UNCHANGED <<step, isSubmitting>>
    /\ UNCHANGED <<isLoading, chatLogs, unlisten, active, destroyed, mountPc,
                   joinPc, waits, disc, evCount, arrived>>

GetTokenSettle ==
    /\ credPc = "get_token"
    /\ \E r \in Outcomes :
          /\ last' = "get_token:" \o r
          /\ IF r = "ok"
                THEN /\ step' = 2
                     /\ credPc' = "openUrl"
                     /\ UNCHANGED <<errorMessage, isSubmitting>>
                ELSE /\ errorMessage' = GetTokenError
                     /\ isSubmitting' = FALSE
                     /\ credPc' = "idle"
                     /\ UNCHANGED step
    /\ UNCHANGED <<isLoading, chatLogs, unlisten, active, destroyed, mountPc,
                   joinPc, waits, disc, evCount, arrived>>

\* openUrl resolved or failed (a failure is only logged); beginPollingForToken
\* issues wait_for_token, then the finally block runs.  The wait is live while
\* the authorization screen of its attempt is shown, stale once the user has
\* left that screen.
OpenUrlSettle ==
    /\ credPc = "openUrl"
    /\ waits' = IF step = 2 THEN [waits EXCEPT !.live = @ + 1]
                            ELSE [waits EXCEPT !.stale = @ + 1]
    /\ isSubmitting' = FALSE
    /\ credPc' = "idle"
    /\ last' = "openUrl"
    /\ UNCHANGED <<step, isLoading, errorMessage, chatLogs, unlisten, active,
                   destroyed, mountPc, joinPc, disc, evCount, arrived>>

\* Mutant: the catch block shows the banner but leaves the wizard where it is
PollingContinuation_NoReset(r) ==
    IF r = "ok"
       THEN /\ step' = 3
            /\ UNCHANGED errorMessage
       ELSE /\ errorMessage' = AuthTimeoutMessage
            /\ UNCHANGED step

\* Mutant: a resolved wait moves the wizard one screen on from where it is
PollingContinuation_Advance(r) ==
    IF r = "ok"
       THEN /\ step' = step + 1
            /\ UNCHANGED errorMessage
       ELSE /\ errorMessage' = AuthTimeoutMessage
            /\ step' = 1

\* The continuation of beginPollingForToken for a settled wait_for_token
PollingContinuation(r) ==
    IF r = "ok"
       THEN /\ step' = 3
            /\ UNCHANGED errorMessage
       ELSE /\ errorMessage' = AuthTimeoutMessage
            /\ step' = 1

WaitForTokenSettle ==
    /\ \E k \in {"live", "stale"}, r \in Outcomes :
          /\ waits[k] > 0
          /\ waits' = [waits EXCEPT ![k] = @ - 1]
          /\ PollingContinuation(r)
          /\ last' = "wait_for_token:" \o r
    /\ UNCHANGED <<isLoading, isSubmitting, chatLogs, unlisten, active, destroyed,
                   mountPc, credPc, joinPc, disc, evCount, arrived>>

(* Buttons that only assign state *)

\* step 2, Cancel: the pending wait_for_token calls are not cancelled
ClickCancel ==
    /\ Visible(2)
    /\ step' = 1
    /\ waits' = [live |-> 0, stale |-> waits.live + waits.stale]
    /\ last' = "click:Cancel"
    /\ UNCHANGED <<isLoading, isSubmitting, errorMessage, chatLogs, unlisten, active,
                   destroyed, mountPc, credPc, joinPc, disc, evCount, arrived>>

\* step 3, Connect to a stream
ClickConnectToStream ==
    /\ Visible(3)
    /\ step' = 4
    /\ last' = "click:ConnectToStream"
    /\ UNCHANGED <<isLoading, isSubmitting, errorMessage, chatLogs, unlisten, active,
                   destroyed, mountPc, credPc, joinPc, waits, disc, evCount, arrived>>

\* step 3, Configure different account
resetFlow ==
    /\ Visible(3)
    /\ step' = 1
    /\ errorMessage' = NoError
    /\ last' = "resetFlow"
    /\ UNCHANGED <<isLoading, isSubmitting, chatLogs, unlisten, active,
                   destroyed, mountPc, credPc, joinPc, waits, disc, evCount, arrived>>

----------------------------------------------------------------------------
(* handleJoinChannel *)

\* Mutant: the connected screen is shown as soon as the form is submitted
handleJoinChannel_Optimistic ==
    /\ Visible(4)
    /\ ~isSubmitting
    /\ joinPc = "idle"
    /\ isSubmitting' = TRUE
    /\ errorMessage' = NoError
    /\ step' = 5
    /\ startChatListener
    /\ joinPc' = "listen"
    /\ last' = "handleJoinChannel"
    /\ UNCHANGED <<isLoading, chatLogs, unlisten, destroyed, mountPc, credPc,
                   waits, disc, evCount, arrived>>

handleJoinChannel ==
    /\ Visible(4)
    /\ ~isSubmitting                  \* the submit button is disabled otherwise
    /\ joinPc = "idle"
    /\ isSubmitting' = TRUE
    /\ errorMessage' = NoError
    /\ startChatListener
    /\ joinPc' = "listen"
    /\ last' = "handleJoinChannel"
    /\ UNCHANGED <<step, isLoading, chatLogs, unlisten, destroyed, mountPc, credPc,
                   waits, disc, evCount, arrived>>

JoinListenSettle ==
    /\ joinPc = "listen"
    /\ ListenResolved
    /\ joinPc' = "join_channel"
    /\ last' = "join:listen"
    /\ UNCHANGED <<step, isLoading, isSubmitting, errorMessage, chatLogs, destroyed,
                   mountPc, credPc, waits, disc, evCount, arrived>>

JoinChannelSettle ==
    /\ joinPc = "join_channel"
    /\ \E r \in Outcomes :
          /\ last' = "join_channel:" \o r
          /\ IF r = "ok"
                THEN /\ step' = 5
                     /\ UNCHANGED errorMessage
                ELSE /\ errorMessage' = JoinChannelError
                     /\ UNCHANGED step
    /\ isSubmitting' = FALSE
    /\ joinPc' = "idle"
    /\ UNCHANGED <<isLoading, chatLogs, unlisten, active, destroyed, mountPc, credPc,
                   waits, disc, evCount, arrived>>

----------------------------------------------------------------------------
(* handleDisconnect *)

handleDisconnect ==
    /\ Visible(5)
    /\ disc < MaxDisconnects
    /\ disc' = disc + 1
    /\ last' = "handleDisconnect"
    /\ UNCHANGED <<step, isLoading, isSubmitting, errorMessage, chatLogs, unlisten,
                   active, destroyed, mountPc, credPc, joinPc, waits, evCount, arrived>>

\* Mutant: the finally block forgets the subscription
DisconnectFinally_KeepListener ==
    /\ step' = 4
    /\ chatLogs' = <<>>
    /\ arrived' = <<>>
    /\ UNCHANGED <<active, unlisten>>

\* The finally block: it runs whether leave_channel resolved or failed
DisconnectFinally ==
    /\ step' = 4
    /\ chatLogs' = <<>>
    /\ arrived' = <<>>
    /\ active' = IF unlisten # None THEN Release(active, unlisten) ELSE active
    /\ unlisten' = None

LeaveChannelSettle ==
    /\ disc > 0
    /\ \E r \in Outcomes : last' = "leave_channel:" \o r
    /\ DisconnectFinally
    /\ disc' = disc - 1
    /\ UNCHANGED <<isLoading, isSubmitting, errorMessage, destroyed, mountPc, credPc,
                   joinPc, waits, evCount>>

----------------------------------------------------------------------------
(* The backend emits a chat-event; the payload is the event's serial number. *)
(* An event emitted while the view has no subscription runs no handler.      *)

ChatEventUpTo(limit) ==
    /\ evCount < limit
    /\ evCount' = evCount + 1
    /\ chatLogs' = Deliver(chatLogs, evCount + 1, Cardinality(active))
    /\ arrived' = IF active # {} THEN Append(arrived, evCount + 1) ELSE arrived
    /\ last' = "chat-event"
    /\ UNCHANGED <<step, isLoading, isSubmitting, errorMessage, unlisten, active,
                   destroyed, mountPc, credPc, joinPc, waits, disc>>

ChatEvent == ChatEventUpTo(MaxEvents)

LogChatEvent == ChatEventUpTo(MaxLogEvents)

----------------------------------------------------------------------------
(* The translation chat: values *)

\* JavaScript values, tagged by type
Str(s) == <<"string", s>>
Bool(b) == <<"boolean", b>>
Undefined == <<"undefined">>

\* localStorage.getItem: null, or the stored text
Null == <<>>
Stored(text) == <<text>>

\* Reading a property that the object does not have gives undefined
Get(m, k) == IF k \in DOMAIN m THEN m[k] ELSE Undefined

\* What the user can type: strings as sequences of characters
Inputs == {<<>>, <<" ">>, <<"a">>, <<" ", "a", " ">>}

\* formatTime(new Date())
Timestamps == {"9:41 AM", "9:42 AM"}

\* What translate can resolve to; the bridge result is cast, not validated
TranslationResponses ==
    [language : {Str("French"), Undefined}, translation : {<<"b">>}]

TranslateFailure == <<"e">>

RECURSIVE TrimStart(_)
TrimStart(s) == IF s # <<>> /\ Head(s) = " " THEN TrimStart(Tail(s)) ELSE s

RECURSIVE TrimEnd(_)
TrimEnd(s) ==
    IF s # <<>> /\ s[Len(s)] = " " THEN TrimEnd(SubSeq(s, 1, Len(s) - 1)) ELSE s

\* String.prototype.trim
Trim(s) == TrimEnd(TrimStart(s))

\* The properties of a Message in the order the object literals list them
KeyOrder == <<"id", "content", "variant", "timestamp", "language", "isError">>

\* Mutant: a serializer that writes only the required properties of a Message
StringifyObject_RequiredOnly(m) ==
    LET Kept(k) == k \in DOMAIN m /\ k \notin {"language", "isError"}
        keys == SelectSeq(KeyOrder, Kept)
    IN  [j \in 1..Len(keys) |-> <<keys[j], m[keys[j]]>>]

\* JSON.stringify of one message: its properties in insertion order, those
\* whose value is undefined left out
StringifyObject(m) ==
    LET Kept(k) == k \in DOMAIN m /\ m[k] # Undefined
        keys == SelectSeq(KeyOrder, Kept)
    IN  [j \in 1..Len(keys) |-> <<keys[j], m[keys[j]]>>]

\* JSON.stringify(messages)
Stringify(msgs) == [i \in 1..Len(msgs) |-> StringifyObject(msgs[i])]

\* JSON.parse of one object: exactly the properties the text lists
ParseObject(pairs) ==
    [k \in {pairs[j][1] : j \in 1..Len(pairs)} |->
        pairs[CHOOSE j \in 1..Len(pairs) : pairs[j][1] = k][2]]

\* JSON.parse of the stored history
Parse(text) == [i \in 1..Len(text) |-> ParseObject(text[i])]

\* crypto.randomUUID(): a fresh identifier
RandomUUID(n) == Str(<<"uuid", n>>)

SentMessage(n, text, ts) ==
    [id |-> RandomUUID(n), content |-> Str(text), variant |-> Str("sent"),
     timestamp |-> Str(ts)]

ReceivedMessage(n, result, ts) ==
    [id |-> RandomUUID(n), content |-> Str(result.translation),
     variant |-> Str("received"), timestamp |-> Str(ts),
     language |-> result.language]

ErrorMessage(n, error, ts) ==
    [id |-> RandomUUID(n), content |-> Str(<<"Translation error: ">> \o error),
     variant |-> Str("received"), timestamp |-> Str(ts), isError |-> Bool(TRUE)]

\* Mutant: the list is cut to its 50 most recent entries, as chatLogs is
Push_Capped(msgs, m) == SliceLast(Append(msgs, m), ChatLogCap)

\* messages.push
Push(msgs, m) == Append(msgs, m)

\* Mutant: the effect follows the binding of messages, not its contents, so a
\* push does not rewrite the history key
RunEffect_Shallow(msgs, draft) ==
    IF view = "mounted" /\ isLoaded
       THEN [history |-> localStorage.history, draft |-> Stored(draft)]
       ELSE localStorage

\* The $effect: it runs after every handler segment that changed messages or
\* userMessage, while the view is mounted
RunEffect(msgs, draft) ==
    IF view = "mounted" /\ isLoaded
       THEN [history |-> Stored(Stringify(msgs)), draft |-> Stored(draft)]
       ELSE localStorage

\* The list the $effect stringifies when it runs
EffectWrites(msgs) == IF view = "mounted" /\ isLoaded THEN msgs ELSE written

\* The history an earlier session left in localStorage
SavedHistory ==
    [i \in 1..SavedLen |->
        IF i % 2 = 1
           THEN [id |-> Str(<<"saved", i>>), content |-> Str(<<"a">>),
                 variant |-> Str("sent"), timestamp |-> Str("9:41 AM")]
           ELSE [id |-> Str(<<"saved", i>>), content |-> Str(<<"b">>),
                 variant |-> Str("received"), timestamp |-> Str("9:41 AM"),
                 language |-> Str("French")]]

\* The chat variables before the translation view is first opened, with
\* localStorage as given
ChatUnopened(storage, saved) ==
    /\ view = "none"
    /\ userMessage = <<>>
    /\ messages = <<>>
    /\ isTyping = 0
    /\ isLoaded = FALSE
    /\ localStorage = storage
    /\ translating = <<>>
    /\ created = 0
    /\ written = saved
    /\ lastChat = "none"

----------------------------------------------------------------------------
(* The chat-history store *)

\* What callers pass to addMessage, and what new Date() can give
Contents == {"hello", "bonjour"}
Senders == {"user", "bot"}
Dates == {"t0", "t1"}

\* The message the store is created with
WelcomeMessage ==
    [id |-> 0,
     content |-> "This is not a LLM! It only translates! Paste your message!",
     sender |-> "bot", timestamp |-> "t0"]

InitStore ==
    /\ chatHistory = <<WelcomeMessage>>
    /\ messageIdCounter = 1

\* Mutant: the new message is put in front of the history
StoreUpdate_Prepend(history, newMessage) == <<newMessage>> \o history

\* chatHistory.update(history => [...history, newMessage])
StoreUpdate(history, newMessage) == Append(history, newMessage)

\* addMessage: messageIdCounter++ gives the message the counter's value and
\* then increments the counter
addMessage ==
    /\ messageIdCounter <= MaxAdded
    /\ \E content \in Contents, sender \in Senders, now \in Dates :
          LET newMessage == [id |-> messageIdCounter, content |-> content,
                             sender |-> sender, timestamp |-> now]
          IN  chatHistory' = StoreUpdate(chatHistory, newMessage)
    /\ messageIdCounter' = messageIdCounter + 1

----------------------------------------------------------------------------
(* The theme selector *)

\* The values of the three Select items
Themes == {"light", "dark", "system"}

\* What localStorage can hold under the mode-watcher-mode key: nothing, one
\* of the three modes, or a text that is none of them
StoredModes ==
    {Null, Stored("light"), Stored("dark"), Stored("system"), Stored("auto")}

\* Mutant: the stored text is taken over unchecked
RestoredTheme_Unchecked(savedTheme) ==
    IF savedTheme # Null THEN savedTheme[1] ELSE "system"

\* The value onMount gives theme for a stored text
RestoredTheme(savedTheme) ==
    IF savedTheme = Stored("light") \/ savedTheme = Stored("dark")
       THEN savedTheme[1]
       ELSE "system"

\* The selector has been constructed and not yet mounted
ThemeConstructed(stored) ==
    /\ theme = "system"
    /\ themeView = "constructed"
    /\ modeStored = stored
    /\ modeCalls = <<>>
    /\ lastTheme = "construct"

\* The calls into mode-watcher.  The library is not part of the repository:
\* what it keeps under its key after a call is left open.
setMode(mode) ==
    /\ modeCalls' = Append(modeCalls, <<"setMode", mode>>)
    /\ modeStored' \in StoredModes

resetMode ==
    /\ modeCalls' = Append(modeCalls, <<"resetMode">>)
    /\ modeStored' \in StoredModes

\* A new instance of the selector is mounted: onMount
ThemeMount ==
    /\ themeView # "mounted"
    /\ themeView' = "mounted"
    /\ theme' = RestoredTheme(modeStored)
    /\ lastTheme' = "onMount"
    /\ UNCHANGED <<modeStored, modeCalls>>

\* The user picks one of the Select items
onThemeChange ==
    /\ themeView = "mounted"
    /\ Len(modeCalls) < MaxThemeChanges
    /\ \E value \in Themes :
          /\ theme' = value
          /\ IF value = "system" THEN resetMode ELSE setMode(value)
          /\ lastTheme' = "onThemeChange:" \o value
    /\ UNCHANGED themeView

\* The selector is removed from the page
ThemeDestroy ==
    /\ themeView = "mounted"
    /\ themeView' = "destroyed"
    /\ lastTheme' = "destroy"
    /\ UNCHANGED <<theme, modeStored, modeCalls>>

\* The store as created and the selector constructed on an empty storage
InitWidgets == InitStore /\ ThemeConstructed(Null)

----------------------------------------------------------------------------
(* Initial states *)

\* The translation view on a first run: nothing is stored
InitChat ==
    /\ InitBot
    /\ ChatUnopened([history |-> Null, draft |-> Null], <<>>)
    /\ InitWidgets

\* The translation view after earlier sessions have stored a history
InitSaved ==
    /\ InitBot
    /\ ChatUnopened([history |-> Stored(Stringify(SavedHistory)),
                     draft |-> Stored(<<>>)], SavedHistory)
    /\ InitWidgets

\* The theme selector, on whatever the storage holds under mode-watcher-mode
InitTheme ==
    /\ InitBot
    /\ ChatUnopened([history |-> Null, draft |-> Null], <<>>)
    /\ InitStore
    /\ \E stored \in StoredModes : ThemeConstructed(stored)

\* The bot wizard, with the translation view never opened
Init == InitChat

----------------------------------------------------------------------------
(* The translation chat: handlers *)

\* A new instance of the view is constructed and mounted: onMount, then the
\* first run of the $effect.  Calls of an earlier instance still in flight
\* can only change that instance and are dropped.
MountChat ==
    /\ view # "mounted"
    /\ LET savedHistory == localStorage.history
           savedDraft == localStorage.draft
           loaded == IF savedHistory # Null THEN Parse(savedHistory[1]) ELSE <<>>
           draft == IF savedDraft # Null /\ savedDraft[1] # <<>>
                       THEN savedDraft[1] ELSE <<>>
           recover == loaded # <<>> /\ Get(loaded[Len(loaded)], "variant") = Str("sent")
       IN  /\ recover => created < MaxCreated
           /\ messages' = loaded
           /\ userMessage' = draft
           /\ isTyping' = IF recover THEN 1 ELSE 0
           /\ translating' = IF recover
                                THEN <<Get(loaded[Len(loaded)], "content")[2]>>
                                ELSE <<>>
           /\ localStorage' = [history |-> Stored(Stringify(loaded)),
                               draft |-> Stored(draft)]
           /\ written' = loaded
           /\ lastChat' = IF recover THEN "onMount:recover" ELSE "onMount"
    /\ view' = "mounted"
    /\ isLoaded' = TRUE
    /\ UNCHANGED created

\* Navigating away destroys the view and its effects
DestroyChat ==
    /\ view = "mounted"
    /\ view' = "destroyed"
    /\ lastChat' = "destroy"
    /\ UNCHANGED <<userMessage, messages, isTyping, isLoaded, localStorage,
                   translating, created, written>>

\* bind:value={userMessage}
TypeInput ==
    /\ view = "mounted"
    /\ \E s \in Inputs \ {userMessage} :
          /\ userMessage' = s
          /\ localStorage' = RunEffect(messages, s)
          /\ written' = EffectWrites(messages)
    /\ lastChat' = "input"
    /\ UNCHANGED <<view, messages, isTyping, isLoaded, translating, created>>

\* Mutant: the message is pushed and translated as typed, untrimmed
handleSendMessage_Untrimmed ==
    /\ view = "mounted"
    /\ LET trimmedMessage == Trim(userMessage)
       IN  IF trimmedMessage = <<>>
              THEN /\ lastChat' = "handleSendMessage:blank"
                   /\ UNCHANGED <<userMessage, messages, isTyping, localStorage,
                                  translating, created, written>>
              ELSE /\ created + Len(translating) + 2 <= MaxCreated
                   /\ \E ts \in Timestamps :
                         messages' = Push(messages,
                                          SentMessage(created + 1, userMessage, ts))
                   /\ userMessage' = <<>>
                   /\ isTyping' = isTyping + 1
                   /\ translating' = Append(translating, userMessage)
                   /\ created' = created + 1
                   /\ localStorage' = RunEffect(messages', <<>>)
                   /\ written' = EffectWrites(messages')
                   /\ lastChat' = "handleSendMessage"
    /\ UNCHANGED <<view, isLoaded>>

handleSendMessage ==
    /\ view = "mounted"
    /\ LET trimmedMessage == Trim(userMessage)
       IN  IF trimmedMessage = <<>>
              THEN /\ lastChat' = "handleSendMessage:blank"
                   /\ UNCHANGED <<userMessage, messages, isTyping, localStorage,
                                  translating, created, written>>
              ELSE /\ created + Len(translating) + 2 <= MaxCreated
                   /\ \E ts \in Timestamps :
                         messages' = Push(messages,
                                          SentMessage(created + 1, trimmedMessage, ts))
                   /\ userMessage' = <<>>
                   \* processBotResponse up to its await
                   /\ isTyping' = isTyping + 1
                   /\ translating' = Append(translating, trimmedMessage)
                   /\ created' = created + 1
                   /\ localStorage' = RunEffect(messages', <<>>)
                   /\ written' = EffectWrites(messages')
                   /\ lastChat' = "handleSendMessage"
    /\ UNCHANGED <<view, isLoaded>>

RemoveAt(s, i) == SubSeq(s, 1, i - 1) \o SubSeq(s, i + 1, Len(s))

\* Mutant: the catch block pushes a bubble without the error flag
BotResponse_NoErrorFlag(outcome, ts) ==
    IF outcome.ok
       THEN ReceivedMessage(created + 1, outcome.result, ts)
       ELSE [id |-> RandomUUID(created + 1),
             content |-> Str(<<"Translation error: ">> \o outcome.error),
             variant |-> Str("received"), timestamp |-> Str(ts)]

\* The message processBotResponse pushes for a settled translate call
BotResponse(outcome, ts) ==
    IF outcome.ok
       THEN ReceivedMessage(created + 1, outcome.result, ts)
       ELSE ErrorMessage(created + 1, outcome.error, ts)

TranslateOutcomes ==
    {[ok |-> TRUE, result |-> r] : r \in TranslationResponses}
        \cup {[ok |-> FALSE, error |-> TranslateFailure]}

\* Mutant: the counter is decremented at the end of the try block, not in a
\* finally block, so a failed call leaves it raised
TranslateSettle_NoFinally ==
    /\ \E i \in 1..Len(translating), outcome \in TranslateOutcomes, ts \in Timestamps :
          /\ translating' = RemoveAt(translating, i)
          /\ messages' = Push(messages, BotResponse(outcome, ts))
          /\ lastChat' = IF outcome.ok THEN "translate:ok" ELSE "translate:fail"
          /\ isTyping' = IF outcome.ok THEN isTyping - 1 ELSE isTyping
    /\ created' = created + 1
    /\ localStorage' = RunEffect(messages', userMessage)
    /\ written' = EffectWrites(messages')
    /\ UNCHANGED <<view, userMessage, isLoaded>>

\* A translate call settles: the rest of processBotResponse, finally included
TranslateSettle ==
    /\ \E i \in 1..Len(translating), outcome \in TranslateOutcomes, ts \in Timestamps :
          /\ translating' = RemoveAt(translating, i)
          /\ messages' = Push(messages, BotResponse(outcome, ts))
          /\ lastChat' = IF outcome.ok THEN "translate:ok" ELSE "translate:fail"
    /\ isTyping' = isTyping - 1
    /\ created' = created + 1
    /\ localStorage' = RunEffect(messages', userMessage)
    /\ written' = EffectWrites(messages')
    /\ UNCHANGED <<view, userMessage, isLoaded>>

----------------------------------------------------------------------------
(* Specifications *)

\* The bot wizard
Next ==
    \/ CheckAuthStatusSettle /\ UNCHANGED <<chatVars, widgetVars>>
    \/ IsInChannelSettle /\ UNCHANGED <<chatVars, widgetVars>>
    \/ MountListenSettle /\ UNCHANGED <<chatVars, widgetVars>>
    \/ onDestroy /\ UNCHANGED <<chatVars, widgetVars>>
    \/ handleCredentialsSubmit /\ UNCHANGED <<chatVars, widgetVars>>
    \/ GetTokenSettle /\ UNCHANGED <<chatVars, widgetVars>>
    \/ OpenUrlSettle /\ UNCHANGED <<chatVars, widgetVars>>
    \/ WaitForTokenSettle /\ UNCHANGED <<chatVars, widgetVars>>
    \/ ClickCancel /\ UNCHANGED <<chatVars, widgetVars>>
    \/ ClickConnectToStream /\ UNCHANGED <<chatVars, widgetVars>>
    \/ resetFlow /\ UNCHANGED <<chatVars, widgetVars>>
    \/ handleJoinChannel /\ UNCHANGED <<chatVars, widgetVars>>
    \/ JoinListenSettle /\ UNCHANGED <<chatVars, widgetVars>>
    \/ JoinChannelSettle /\ UNCHANGED <<chatVars, widgetVars>>
    \/ handleDisconnect /\ UNCHANGED <<chatVars, widgetVars>>
    \/ LeaveChannelSettle /\ UNCHANGED <<chatVars, widgetVars>>
    \/ ChatEvent /\ UNCHANGED <<chatVars, widgetVars>>

Spec == Init /\ [][Next]_vars

\* The chat log of a restored session: mount, chat events, disconnect
NextLog ==
    \/ CheckAuthStatusSettle /\ UNCHANGED <<chatVars, widgetVars>>
    \/ IsInChannelSettle /\ UNCHANGED <<chatVars, widgetVars>>
    \/ MountListenSettle /\ UNCHANGED <<chatVars, widgetVars>>
    \/ handleDisconnect /\ UNCHANGED <<chatVars, widgetVars>>
    \/ LeaveChannelSettle /\ UNCHANGED <<chatVars, widgetVars>>
    \/ LogChatEvent /\ UNCHANGED <<chatVars, widgetVars>>

SpecLog == Init /\ [][NextLog]_vars

\* The translation view
NextChat ==
    \/ MountChat /\ UNCHANGED <<botVars, widgetVars>>
    \/ DestroyChat /\ UNCHANGED <<botVars, widgetVars>>
    \/ TypeInput /\ UNCHANGED <<botVars, widgetVars>>
    \/ handleSendMessage /\ UNCHANGED <<botVars, widgetVars>>
    \/ TranslateSettle /\ UNCHANGED <<botVars, widgetVars>>

SpecChat == InitChat /\ [][NextChat]_vars

\* The translation view on top of a stored history
SpecSaved == InitSaved /\ [][NextChat]_vars

\* The layout renders one route at a time: a session of SpecApp is spent on
\* the bot page or on the translation page
OnBotPage == view = "none"
OnChatPage == last = "construct"

NextApp ==
    \/ OnBotPage /\ CheckAuthStatusSettle /\ UNCHANGED <<chatVars, widgetVars>>
    \/ OnBotPage /\ IsInChannelSettle /\ UNCHANGED <<chatVars, widgetVars>>
    \/ OnBotPage /\ MountListenSettle /\ UNCHANGED <<chatVars, widgetVars>>
    \/ OnBotPage /\ onDestroy /\ UNCHANGED <<chatVars, widgetVars>>
    \/ OnBotPage /\ handleCredentialsSubmit /\ UNCHANGED <<chatVars, widgetVars>>
    \/ OnBotPage /\ GetTokenSettle /\ UNCHANGED <<chatVars, widgetVars>>
    \/ OnBotPage /\ OpenUrlSettle /\ UNCHANGED <<chatVars, widgetVars>>
    \/ OnBotPage /\ WaitForTokenSettle /\ UNCHANGED <<chatVars, widgetVars>>
    \/ OnBotPage /\ ClickCancel /\ UNCHANGED <<chatVars, widgetVars>>
    \/ OnBotPage /\ ClickConnectToStream /\ UNCHANGED <<chatVars, widgetVars>>
    \/ OnBotPage /\ resetFlow /\ UNCHANGED <<chatVars, widgetVars>>
    \/ OnBotPage /\ handleJoinChannel /\ UNCHANGED <<chatVars, widgetVars>>
    \/ OnBotPage /\ JoinListenSettle /\ UNCHANGED <<chatVars, widgetVars>>
    \/ OnBotPage /\ JoinChannelSettle /\ UNCHANGED <<chatVars, widgetVars>>
    \/ OnBotPage /\ handleDisconnect /\ UNCHANGED <<chatVars, widgetVars>>
    \/ OnBotPage /\ LeaveChannelSettle /\ UNCHANGED <<chatVars, widgetVars>>
    \/ OnBotPage /\ ChatEvent /\ UNCHANGED <<chatVars, widgetVars>>
    \/ OnChatPage /\ MountChat /\ UNCHANGED <<botVars, widgetVars>>
    \/ OnChatPage /\ DestroyChat /\ UNCHANGED <<botVars, widgetVars>>
    \/ OnChatPage /\ TypeInput /\ UNCHANGED <<botVars, widgetVars>>
    \/ OnChatPage /\ handleSendMessage /\ UNCHANGED <<botVars, widgetVars>>
    \/ OnChatPage /\ TranslateSettle /\ UNCHANGED <<botVars, widgetVars>>

\* Both pages, one per session
SpecApp == Init /\ [][NextApp]_vars

\* The chat-history store
NextStore == addMessage /\ UNCHANGED <<pageVars, themeVars>>

SpecStore == Init /\ [][NextStore]_vars

\* The theme selector
NextTheme ==
    \/ ThemeMount /\ UNCHANGED <<pageVars, storeVars>>
    \/ onThemeChange /\ UNCHANGED <<pageVars, storeVars>>
    \/ ThemeDestroy /\ UNCHANGED <<pageVars, storeVars>>

SpecTheme == InitTheme /\ [][NextTheme]_vars

----------------------------------------------------------------------------
(* Properties of the bot wizard *)

LeaveChannelSettled == last \in {"leave_channel:ok", "leave_channel:fail"}

\* C1: after handleDisconnect completes, whether leave_channel resolved or
\* failed, chatLogs is empty, the subscription the view held is released and
\* its handle cleared, and the wizard is at step 4.
C1_DisconnectClears ==
    LeaveChannelSettled =>
        /\ chatLogs = <<>>
        /\ unlisten = None
        /\ active = {}
        /\ step = 4

\* C1 witness: a disconnect whose leave_channel failed, after chat events
\* were emitted
C1_Witness ==
    /\ last = "leave_channel:fail"
    /\ evCount > 0
    /\ step = 4
    /\ chatLogs = <<>>

\* C2: once the view is destroyed no chat-event subscription created by it is
\* active, also when it is destroyed while listen() is pending.
C2_NoSubscriptionAfterDestroy == destroyed => active = {}

\* The continuations of resolved remote calls in which the wizard advances:
\* is_in_channel (to step 3, or to step 5 once the listen() that onMount awaits
\* next has resolved), get_token, wait_for_token, join_channel
ResolvedRemoteCalls ==
    {"is_in_channel:false", "mount:listen", "get_token:ok", "wait_for_token:ok",
     "join_channel:ok"}

\* C3 as stated: step rises only in the continuation of a remote call that has
\* just resolved; no user click raises it.
C3_StepAdvancesOnlyOnRemote ==
    [][step' > step => last' \in ResolvedRemoteCalls]_vars

\* C3 amended: step rises only in the continuation of a resolved remote call
\* (is_in_channel, get_token, wait_for_token, join_channel), of a settled
\* leave_channel (to step 4), or by the click on "Connect to a stream", which
\* takes step 3 to step 4.
C3_StepAdvance ==
    [][step' > step =>
          \/ last' \in ResolvedRemoteCalls
          \/ last' \in {"leave_channel:ok", "leave_channel:fail"} /\ step' = 4
          \/ last' = "click:ConnectToStream" /\ step = 3 /\ step' = 4]_vars

\* C3 witness: the click on "Connect to a stream" has moved the wizard to step 4
C3_Witness == last = "click:ConnectToStream" /\ step = 4

\* C4: chatLogs is the last min(n, 50) payloads handled, in arrival order, and
\* never longer than 50.
C4_ChatLogsAreLastFifty ==
    /\ Len(chatLogs) = Min(Len(arrived), ChatLogCap)
    /\ Len(chatLogs) <= ChatLogCap
    /\ \A i \in 1..Len(chatLogs) :
          chatLogs[i] = arrived[Len(arrived) - Len(chatLogs) + i]

\* C4 witness: 52 events were handled and the two oldest were dropped
C4_Witness ==
    /\ Len(arrived) = ChatLogCap + 2
    /\ Len(chatLogs) = ChatLogCap
    /\ chatLogs[1] = 3
    /\ chatLogs[ChatLogCap] = ChatLogCap + 2

\* C9: a failed wait_for_token puts the wizard on step 1 with a banner, a
\* resolved one on step 3, and neither continuation issues another wait.
C9_AuthorizationWait ==
    [][/\ last' = "wait_for_token:fail" =>
             /\ step' = 1
             /\ errorMessage' # NoError
             /\ WaitsPending' = WaitsPending - 1
       /\ last' = "wait_for_token:ok" =>
             /\ step' = 3
             /\ WaitsPending' = WaitsPending - 1]_vars

\* C9 witness: the wait failed while the authorization screen was shown
C9_Witness ==
    /\ last = "wait_for_token:fail"
    /\ step = 1
    /\ errorMessage = AuthTimeoutMessage
    /\ WaitsPending = 0

\* C10: after get_token fails the wizard is still at step 1, after join_channel
\* fails it is still at step 4; isSubmitting is false and errorMessage holds
\* the failure text.
C10_RetryAfterFailure ==
    /\ last = "get_token:fail" =>
          step = 1 /\ ~isSubmitting /\ errorMessage = GetTokenError
    /\ last = "join_channel:fail" =>
          step = 4 /\ ~isSubmitting /\ errorMessage = JoinChannelError

\* C12: in every reachable state of the wizard, whatever the interleaving of
\* user actions and remote-call outcomes, step is one of 1, 2, 3, 4, 5.
C12_StepInRange == step \in 1..5

\* C12 witness: the connected screen is shown while a wait_for_token call of
\* an abandoned authorization is still pending
C12_Witness ==
    /\ step = 5
    /\ waits.stale > 0
    /\ ~destroyed

\* C14: onMount routes the wizard by the remote outcomes: check_auth_status
\* false, or a failure of check_auth_status or is_in_channel, leaves step 1;
\* is_in_channel false gives step 3; is_in_channel true gives step 5 with the
\* chat-event subscription attached no later than step becomes 5 (step stays
\* 1 while onMount is still running); isLoading ends false in every case.
C14_MountRouting ==
    [][/\ last' \in {"check_auth_status:false", "check_auth_status:fail",
                     "is_in_channel:fail"} =>
             step' = 1 /\ ~isLoading' /\ mountPc' = "done"
       /\ last' = "is_in_channel:false" =>
             step' = 3 /\ ~isLoading' /\ mountPc' = "done"
       /\ last' = "mount:listen" =>
             /\ step' = 5 /\ ~isLoading' /\ mountPc' = "done"
             /\ unlisten' # None /\ unlisten' \in active'
       /\ mountPc' # "done" => step' = 1 /\ isLoading'
       /\ mountPc' = "done" /\ mountPc # "done" => ~isLoading']_vars

\* C14 witness: the restored session is on the connected screen, the
\* subscription attached and the skeleton gone
C14_Witness ==
    /\ last = "mount:listen"
    /\ step = 5
    /\ unlisten \in active
    /\ ~isLoading

\* C15: whenever the wizard is at step 5 the view holds an active chat-event
\* subscription, also when a second Disconnect was issued while an earlier
\* leave_channel was pending.
C15_SubscribedAtStepFive ==
    ~destroyed /\ step = 5 => unlisten # None /\ unlisten \in active

\* C16: once the user has left the authorization screen, the outcome of the
\* wait_for_token call started for that attempt changes neither step nor
\* errorMessage.
C16_LateWaitIgnored ==
    [][waits'.stale < waits.stale => step' = step /\ errorMessage' = errorMessage]_vars

\* C17: whenever the wizard is not at step 5 and neither handleJoinChannel nor
\* the mount-time restore is in flight, the view holds no active chat-event
\* subscription (so a failed join leaves none behind).
C17_NoSubscriptionOffStepFive ==
    ~destroyed /\ step # 5 /\ joinPc = "idle" /\ mountPc = "done" => active = {}

\* C18: at most one chat-event subscription created by the view is active at
\* any time, across mount-time restore, failed and successful joins and
\* disconnects.
C18_AtMostOneSubscription == Cardinality(active) <= 1

\* C18 witness: a join after a failed join has released the first
\* subscription and registered a second one
C18_Witness ==
    /\ last = "join:listen"
    /\ unlisten = 2
    /\ active = {2}

\* C19: handleJoinChannel has registered the subscription when it invokes
\* join_channel, step becomes 5 in a join only once join_channel has resolved,
\* and every chat event emitted while the connected screen is shown is
\* appended to chatLogs.
C19_JoinDeliversEveryEvent ==
    [][/\ last' = "join:listen" =>
             joinPc' = "join_channel" /\ unlisten' # None /\ unlisten' \in active'
       /\ joinPc # "idle" /\ step # 5 /\ step' = 5 => last' = "join_channel:ok"
       /\ last' = "chat-event" /\ ~destroyed /\ step = 5 =>
             chatLogs' # <<>> /\ chatLogs'[Len(chatLogs')] = evCount']_vars

\* A handler is in flight from its first statement to the end of its finally
\* block
CredentialsInFlight == credPc # "idle"
JoinInFlight == joinPc # "idle"

\* C23: at most one of handleCredentialsSubmit and handleJoinChannel is in
\* flight at any time, isSubmitting is true exactly while one of them is in
\* flight, and it is false again after the success path and after the
\* failure path of each.
C23_OneSubmissionInFlight ==
    [][/\ ~(CredentialsInFlight' /\ JoinInFlight')
       /\ isSubmitting' <=> (CredentialsInFlight' \/ JoinInFlight')
       /\ last' \in {"handleCredentialsSubmit", "handleJoinChannel"} =>
             ~isSubmitting /\ isSubmitting'
       /\ last' \in {"get_token:fail", "openUrl", "join_channel:ok",
                     "join_channel:fail"} =>
             isSubmitting /\ ~isSubmitting']_vars

\* C23 witness: a late wait_for_token failure has put the credentials form
\* back on screen while handleJoinChannel is in flight; its submit button is
\* disabled
C23_Witness ==
    /\ Visible(1)
    /\ JoinInFlight
    /\ ~CredentialsInFlight
    /\ isSubmitting

----------------------------------------------------------------------------
(* Properties of the translation chat *)

MountSettled == lastChat \in {"onMount", "onMount:recover"}

IsPrefix(a, b) == Len(a) <= Len(b) /\ SubSeq(b, 1, Len(a)) = a

\* C5 as stated: the translation chat's list holds at most 50 messages.
C5_AtMostFiftyMessages == Len(messages) <= 50

\* C5 amended: the translation chat's list is never truncated: a send, a
\* response or an error appends one message and keeps every earlier one, so
\* the list grows past 50.
C5_NeverTruncated ==
    [][~MountSettled' => IsPrefix(messages, messages') /\
                         Len(messages') <= Len(messages) + 1]_vars

\* C5 witness: the mounted view shows more than 50 messages, the first of
\* them still the oldest of the stored history
C5_Witness ==
    /\ view = "mounted"
    /\ Len(messages) > 50
    /\ Get(messages[1], "id") = Str(<<"saved", 1>>)

\* Two lists agree entry by entry and field by field
SameFields(a, b) ==
    /\ Len(a) = Len(b)
    /\ \A i \in 1..Len(a) :
          \A j \in 1..Len(KeyOrder) : Get(a[i], KeyOrder[j]) = Get(b[i], KeyOrder[j])

\* C6: on mount the restored list equals, entry by entry, field by field and
\* in the same order, the list last written to the chat-history key.
C6_HistoryRoundTrips ==
    [][view # "mounted" /\ view' = "mounted" => SameFields(messages', written)]_vars

\* C6 witness: a remounted view has restored a sent message, a translation
\* whose language was undefined and an error bubble
C6_Witness ==
    /\ MountSettled
    /\ \E i \in 1..Len(messages) : Get(messages[i], "variant") = Str("sent")
    /\ \E i \in 1..Len(messages) :
          /\ Get(messages[i], "variant") = Str("received")
          /\ Get(messages[i], "language") = Undefined
          /\ Get(messages[i], "isError") = Undefined
    /\ \E i \in 1..Len(messages) : Get(messages[i], "isError") = Bool(TRUE)

LastMessage(msgs) == msgs[Len(msgs)]

\* The list grew by exactly one message, every earlier one kept in place
OneAppended(old, new) == Len(new) = Len(old) + 1 /\ IsPrefix(old, new)

\* C20: a handleSendMessage call with non-blank input appends exactly one
\* sent message holding the trimmed input and issues one translate call; each
\* translate call that settles, in whatever order, appends exactly one
\* received message (the translation with its language, or an error bubble
\* with isError) and is then no longer in flight; a call with empty or
\* whitespace-only input appends nothing and issues no translate call.
C20_SendAndReply ==
    [][/\ lastChat' = "handleSendMessage" =>
             /\ Trim(userMessage) # <<>>
             /\ OneAppended(messages, messages')
             /\ Get(LastMessage(messages'), "variant") = Str("sent")
             /\ Get(LastMessage(messages'), "content") = Str(Trim(userMessage))
             /\ translating' = Append(translating, Trim(userMessage))
       /\ lastChat' = "handleSendMessage:blank" =>
             /\ Trim(userMessage) = <<>>
             /\ messages' = messages
             /\ translating' = translating
       /\ lastChat' = "translate:ok" =>
             /\ OneAppended(messages, messages')
             /\ Len(translating') = Len(translating) - 1
             /\ \E r \in TranslationResponses :
                   /\ Get(LastMessage(messages'), "variant") = Str("received")
                   /\ Get(LastMessage(messages'), "content") = Str(r.translation)
                   /\ Get(LastMessage(messages'), "language") = r.language
                   /\ Get(LastMessage(messages'), "isError") = Undefined
       /\ lastChat' = "translate:fail" =>
             /\ OneAppended(messages, messages')
             /\ Len(translating') = Len(translating) - 1
             /\ Get(LastMessage(messages'), "variant") = Str("received")
             /\ Get(LastMessage(messages'), "isError") = Bool(TRUE)
       /\ Len(messages') > Len(messages) =>
             lastChat' \in {"handleSendMessage", "translate:ok", "translate:fail",
                           "onMount", "onMount:recover"}]_vars

\* C20 witness: two messages were sent before either was answered, one call
\* resolved and the other failed, and a blank input was then submitted
C20_Witness ==
    /\ view = "mounted"
    /\ lastChat = "handleSendMessage:blank"
    /\ Len(messages) = 4
    /\ Get(messages[1], "variant") = Str("sent")
    /\ Get(messages[2], "variant") = Str("sent")
    /\ Get(messages[3], "language") = Str("French")
    /\ Get(messages[4], "isError") = Bool(TRUE)
    /\ translating = <<>>

\* The number of messages of a list with the given variant
CountVariant(msgs, v) ==
    Cardinality({i \in 1..Len(msgs) : Get(msgs[i], "variant") = Str(v)})

\* The sent messages of a list that no reply has been pushed for (an error
\* bubble is a reply)
Unanswered(msgs) == CountVariant(msgs, "sent") - CountVariant(msgs, "received")

\* C21: on mount exactly one translate request is issued, for the content of
\* the last restored message, when that message has variant sent, and none
\* when the history is empty or ends with a received message; and every sent
\* message of the restored history that was left without a reply receives
\* one.  A reply can only come from a translate call in flight, so the second
\* part needs at least as many calls in flight as there are unanswered sent
\* messages.
C21_RecoveryAnswersEverySent ==
    [][/\ view # "mounted" /\ view' = "mounted" =>
             IF messages' # <<>> /\ Get(LastMessage(messages'), "variant") = Str("sent")
                THEN translating' = <<Get(LastMessage(messages'), "content")[2]>>
                ELSE translating' = <<>>
       /\ view' = "mounted" => Unanswered(messages') <= Len(translating')]_vars

\* C22: isTyping equals the number of translate calls of the view in flight:
\* it is never negative, rises by one when a call is issued, falls by one
\* when a call resolves or fails, and is 0 exactly when no call is pending.
C22_TypingCountsCalls ==
    [][/\ isTyping' = Len(translating')
       /\ isTyping' >= 0
       /\ isTyping' = 0 <=> translating' = <<>>
       /\ lastChat' = "handleSendMessage" =>
             isTyping' = isTyping + 1 /\ Len(translating') = Len(translating) + 1
       /\ lastChat' \in {"translate:ok", "translate:fail"} =>
             isTyping' = isTyping - 1 /\ Len(translating') = Len(translating) - 1
       /\ lastChat' \in {"handleSendMessage:blank", "input", "destroy"} =>
             isTyping' = isTyping /\ translating' = translating]_vars

\* C22 witness: of two overlapping calls one has failed and the other is
\* still in flight, so the typing indicator is still shown
C22_Witness ==
    /\ view = "mounted"
    /\ lastChat = "translate:fail"
    /\ isTyping = 1
    /\ Len(translating) = 1
    /\ Len(messages) = 3

----------------------------------------------------------------------------
(* Properties of both pages *)

\* C8 as stated: after the failure of any remote command the banner is shown
\* or an error bubble has been appended.
C8_FailuresAreShown ==
    /\ last \in {"check_auth_status:fail", "is_in_channel:fail", "get_token:fail",
                 "wait_for_token:fail", "join_channel:fail", "leave_channel:fail"}
          => errorMessage # NoError
    /\ lastChat = "translate:fail"
          => messages # <<>> /\ Get(messages[Len(messages)], "isError") = Bool(TRUE)

\* C8 amended: every failure is caught; a failure of get_token, wait_for_token
\* or join_channel sets the banner text, a failure of translate appends an
\* error bubble, and a failure of check_auth_status, is_in_channel or
\* leave_channel is only logged and leaves the banner as it was.
C8_FailuresAreHandled ==
    [][/\ last' = "get_token:fail" => errorMessage' = GetTokenError
       /\ last' = "wait_for_token:fail" => errorMessage' = AuthTimeoutMessage
       /\ last' = "join_channel:fail" => errorMessage' = JoinChannelError
       /\ last' \in {"check_auth_status:fail", "is_in_channel:fail",
                     "leave_channel:fail"} => errorMessage' = errorMessage
       /\ lastChat' = "translate:fail" =>
             /\ Len(messages') = Len(messages) + 1
             /\ Get(messages'[Len(messages')], "isError") = Bool(TRUE)]_vars

\* C8 witness: leave_channel failed and no banner is shown
C8_Witness ==
    /\ last = "leave_channel:fail"
    /\ errorMessage = NoError
    /\ step = 4

----------------------------------------------------------------------------
(* Properties of the chat-history store and of the theme selector *)

\* C11: addMessage is append-only: each call adds exactly one message at the
\* end, leaves every earlier message, the welcome message with id 0
\* included, unchanged and in place, and gives the new message an id greater
\* than every id already in the list, so the ids stay pairwise distinct.
C11_AppendOnly ==
    [][/\ chatHistory' # chatHistory =>
             /\ OneAppended(chatHistory, chatHistory')
             /\ \A i \in 1..Len(chatHistory) :
                   LastMessage(chatHistory').id > chatHistory[i].id
       /\ chatHistory'[1] = WelcomeMessage
       /\ \A i, j \in 1..Len(chatHistory') :
             i # j => chatHistory'[i].id # chatHistory'[j].id]_vars

\* C11 witness: three messages were added after the welcome message
C11_Witness ==
    /\ Len(chatHistory) = 4
    /\ chatHistory[1].id = 0
    /\ chatHistory[2].sender = "user"
    /\ chatHistory[4].id = 3
    /\ messageIdCounter = 4

\* C13: theme is always one of light, dark, system; onMount makes it the
\* stored mode-watcher-mode value when that is light or dark, and system for
\* any other or missing value, and calls nothing; onThemeChange(system) calls
\* resetMode and not setMode; onThemeChange(light | dark) calls setMode with
\* that value and not resetMode.
C13_ThemeSelector ==
    [][/\ theme' \in {"light", "dark", "system"}
       /\ lastTheme' = "onMount" =>
             /\ theme' = IF modeStored = <<"light">> THEN "light"
                          ELSE IF modeStored = <<"dark">> THEN "dark"
                          ELSE "system"
             /\ modeCalls' = modeCalls
       /\ lastTheme' = "onThemeChange:system" =>
             /\ theme' = "system"
             /\ modeCalls' = Append(modeCalls, <<"resetMode">>)
       /\ \A value \in {"light", "dark"} :
             lastTheme' = "onThemeChange:" \o value =>
                /\ theme' = value
                /\ modeCalls' = Append(modeCalls, <<"setMode", value>>)]_vars

\* C13 witness: dark was selected, then system, and a later instance of the
\* selector was mounted on a stored value that is none of the three modes
C13_Witness ==
    /\ lastTheme = "onMount"
    /\ modeCalls = <<<<"setMode", "dark">>, <<"resetMode">>>>
    /\ modeStored = Stored("auto")
    /\ theme = "system"

====
